---- MODULE Spec2Model ----
(***************************************************************************)
(* Model of package diameter (src/node.go): a symbol table from node names *)
(* to dense ids, an adjacency-map graph, and the diameter computed by one  *)
(* breadth-first search per node.  The callers are the table-driven test   *)
(* of src/node_test.go (edgeList.build, then diameter) and an arbitrary    *)
(* caller of addEdge / diameter.                                           *)
(*                                                                         *)
(* nodeID is an int32 in the source; the tables of this model hold a       *)
(* handful of names, far below 2^31, so nodeID(len(s)) never wraps here.   *)
(* A *node pointer is modelled by the key of the node in `nodes`: get      *)
(* allocates exactly one node object per id and never replaces it.         *)
(***************************************************************************)
EXTENDS Naturals, Integers, Sequences, FiniteSets, TLC

\* ------------------------------------------------------------------ bounds

\* number of distinct names the arbitrary caller draws from
NumNames == 3
\* number of addEdge calls the arbitrary caller makes
MaxCalls == 2

AllNames == <<"a", "b", "c", "d", "e", "f", "g", "h">>
Names == {AllNames[i] : i \in 1..NumNames}

\* the nil pointer
Nil == -1
\* the caller holds no value of diameter() for the present graph
NoResult == Nil

\* ------------------------------------------------------------- test table

\* TestDiameter's table: edgeList and expDiameter of each case
tests ==
  << [name |-> "empty", edgeList |-> <<>>, expDiameter |-> 0],
     [name |-> "1 edge", edgeList |-> << <<"a", "b">> >>, expDiameter |-> 1],
     [name |-> "3 in line", edgeList |-> << <<"a", "b">>, <<"b", "c">> >>,
      expDiameter |-> 2],
     [name |-> "4 in line",
      edgeList |-> << <<"a", "b">>, <<"b", "c">>, <<"c", "d">> >>,
      expDiameter |-> 3],
     [name |-> "Triangle",
      edgeList |-> << <<"a", "b">>, <<"b", "c">>, <<"a", "c">> >>,
      expDiameter |-> 1],
     [name |-> "Square",
      edgeList |-> << <<"a", "b">>, <<"b", "c">>, <<"c", "d">>, <<"a", "d">> >>,
      expDiameter |-> 2],
     [name |-> "2 loops",
      edgeList |-> << <<"a", "b">>, <<"b", "c">>, <<"c", "a">>,
                      <<"c", "d">>, <<"d", "e">>, <<"e", "c">> >>,
      expDiameter |-> 2] >>

\* ----------------------------------------------------------- symbol table

\* s[name] = id on a Go map
mapPut(m, k, v) == [x \in (DOMAIN m) \cup {k} |-> IF x = k THEN v ELSE m[x]]

EmptyMap == [x \in {} |-> 0]

\* faulty variant of getID: allocates an id for a known name too
getIDAlwaysAllocates(s, name) ==
  LET id == Cardinality(DOMAIN s)
  IN  [id |-> id, s |-> mapPut(s, name, id)]

\* faulty variant of getID: ids start at 1
getIDOneBased(s, name) ==
  IF name \in DOMAIN s
  THEN [id |-> s[name], s |-> s]
  ELSE LET id == Cardinality(DOMAIN s) + 1
       IN  [id |-> id, s |-> mapPut(s, name, id)]

\* symbolTable.getID: the id returned and the table afterwards
getID(s, name) ==
  IF name \in DOMAIN s
  THEN [id |-> s[name], s |-> s]
  ELSE LET id == Cardinality(DOMAIN s)
       IN  [id |-> id, s |-> mapPut(s, name, id)]

\* ------------------------------------------------------------------ nodes

\* faulty variant of nodes.get: replaces the node that is present
nodesGetAlwaysNew(ns, id) ==
  mapPut(ns, id, [id |-> id, adj |-> {}])

\* nodes.get: the map afterwards (the node returned is the one at key id)
nodesGet(ns, id) ==
  IF id \in DOMAIN ns
  THEN ns
  ELSE mapPut(ns, id, [id |-> id, adj |-> {}])

\* faulty variant of node.add: the neighbour replaces the adjacency map
nodeAddReplace(ns, self, adjNode) ==
  [ns EXCEPT ![self].adj = {ns[adjNode].id}]

\* node.add on the node at key self: self.adj[adjNode.id] = adjNode
nodeAdd(ns, self, adjNode) ==
  [ns EXCEPT ![self].adj = @ \cup {ns[adjNode].id}]

\* faulty variant of nodes.addEdge: bn.add(an) is missing
nodesAddEdgeOneWay(ns, a, b) ==
  LET n1 == nodesGet(ns, a)
      n2 == nodesGet(n1, b)
  IN  nodeAdd(n2, a, b)

\* nodes.addEdge
nodesAddEdge(ns, a, b) ==
  LET n1 == nodesGet(ns, a)
      n2 == nodesGet(n1, b)
      n3 == nodeAdd(n2, a, b)
  IN  nodeAdd(n3, b, a)

\* New
New == [symbolTable |-> EmptyMap, nodes |-> EmptyMap]

\* Graph.addEdge
addEdge(g, a, b) ==
  LET ra == getID(g.symbolTable, a)
      rb == getID(ra.s, b)
  IN  [symbolTable |-> rb.s, nodes |-> nodesAddEdge(g.nodes, ra.id, rb.id)]

\* edgeList.build
RECURSIVE build(_, _)
build(g, e) ==
  IF e = <<>> THEN g
  ELSE build(addEdge(g, Head(e)[1], Head(e)[2]), Tail(e))

\* ---------------------------------------------------------------- the BFS

\* bfsData[id] on a Go map: the zero bfsNode when the key is missing
bfsGet(data, id) ==
  IF id \in DOMAIN data THEN data[id] ELSE [parent |-> Nil, depth |-> 0]

\* faulty variant of the test of line 139: depth 0 taken for undiscovered
undiscoveredByDepth(data, id) == bfsGet(data, id).depth = 0

\* the test of line 139
undiscovered(data, id) == bfsGet(data, id).parent = Nil

\* faulty variant of line 140: the depth is not incremented
childDepthFlat(data, cur) == bfsGet(data, cur).depth

\* the depth recorded at line 140 for a neighbour of n
childDepth(data, cur) == bfsGet(data, cur).depth + 1

\* faulty variant of line 127: the start node is left unmarked
startEntryNilParent(id) == [parent |-> Nil, depth |-> 0]

\* the bfsData entry written for the start node at line 127
startEntry(id) == [parent |-> id, depth |-> 0]

\* faulty variant of lines 105-107: the last value replaces the maximum
runningLast(cur, d) == d

\* the running maximum of lines 105-107
runningMax(cur, d) == IF d > cur THEN d ELSE cur

\* longestShortestPath from line 130 on, as the set of values it can return:
\* Go leaves the order of `range n.adj` open, so every order is followed.
\* An iteration that finds its key discovered changes nothing, so only the
\* order of the undiscovered keys is branched on.
RECURSIVE lspFront(_, _, _, _), lspAdj(_, _, _, _, _)
lspFront(ns, queue, data, cur) ==
  IF queue = <<>>
  THEN {bfsGet(data, cur).depth}
  ELSE lspAdj(ns, Tail(queue), data, Head(queue), ns[Head(queue)].adj)

lspAdj(ns, queue, data, cur, left) ==
  LET fresh == {id \in left : undiscovered(data, id)}
  IN  IF fresh = {}
      THEN lspFront(ns, queue, data, cur)
      ELSE UNION { lspAdj(ns, Append(queue, id),
                          mapPut(data, id, [parent |-> cur,
                                            depth |-> childDepth(data, cur)]),
                          cur, fresh \ {id})
                   : id \in fresh }

\* longestShortestPath: every value it can return
longestShortestPath(ns, id) ==
  lspFront(nodesGet(ns, id), <<id>>, mapPut(EmptyMap, id, startEntry(id)), id)

\* diameter's loop over `range nodes`, in every order of the keys
RECURSIVE diameterLoop(_, _, _)
diameterLoop(tbl, left, cur) ==
  IF left = {}
  THEN {cur}
  ELSE UNION { UNION { diameterLoop(tbl, left \ {id}, runningMax(cur, d))
                       : d \in tbl[id] }
               : id \in left }

\* nodes.diameter: every value it can return
diameterResults(ns) ==
  LET tbl == [id \in DOMAIN ns |-> longestShortestPath(ns, id)]
  IN  diameterLoop(tbl, DOMAIN ns, 0)


VARIABLES
  symbolTable, \* Graph.symbolTable
  nodes,       \* Graph.nodes
  todo,        \* the edges of the test's edgeList not yet built
  hist,        \* every addEdge call made so far, in order
  pc,          \* "idle", "range" (diameter's loop), "front", "adj"
  diameter,    \* diameter's local
  rangeLeft,   \* keys `for id := range nodes` has not produced yet
  start,       \* longestShortestPath's parameter
  q,           \* the list q, front first
  bfsData,     \* the map bfsData
  n,           \* the local n
  adjLeft,     \* keys `for id, m := range n.adj` has not produced yet
  df,          \* the value the last longestShortestPath returned
  dia,         \* the value diameter() returned for the present graph
  pushCount,   \* how often each node was pushed in the present pass
  runs         \* how often each node started a pass in the present call

vars == << symbolTable, nodes, todo, hist, pc, diameter, rangeLeft, start, q,
           bfsData, n, adjLeft, df, dia, pushCount, runs >>

graphVars == << symbolTable, nodes >>
callerVars == << todo, hist >>
bfsVars == << start, q, bfsData, n, adjLeft, df, pushCount >>

\* the test picks one row of the table; the arbitrary caller starts from
\* the row whose edgeList is empty
Init ==
  /\ symbolTable = New.symbolTable
  /\ nodes = New.nodes
  /\ todo \in {tests[i].edgeList : i \in DOMAIN tests}
  /\ hist = <<>>
  /\ pc = "idle"
  /\ diameter = 0
  /\ rangeLeft = {}
  /\ start = Nil
  /\ q = <<>>
  /\ bfsData = EmptyMap
  /\ n = Nil
  /\ adjLeft = {}
  /\ df = 0
  /\ dia = NoResult
  /\ pushCount = EmptyMap
  /\ runs = EmptyMap

\* the locals of a finished diameter() call are gone
LocalsGone ==
  /\ diameter' = 0
  /\ rangeLeft' = {}
  /\ start' = Nil
  /\ q' = <<>>
  /\ bfsData' = EmptyMap
  /\ n' = Nil
  /\ adjLeft' = {}
  /\ df' = 0
  /\ pushCount' = EmptyMap
  /\ runs' = EmptyMap

DoAddEdge(a, b) ==
  LET g == addEdge([symbolTable |-> symbolTable, nodes |-> nodes], a, b)
  IN  /\ symbolTable' = g.symbolTable
      /\ nodes' = g.nodes
      /\ hist' = Append(hist, <<a, b>>)
      /\ dia' = NoResult
      /\ UNCHANGED << pc, diameter, rangeLeft, bfsVars, runs >>

\* one iteration of edgeList.build
Build ==
  /\ pc = "idle"
  /\ todo # <<>>
  /\ DoAddEdge(Head(todo)[1], Head(todo)[2])
  /\ todo' = Tail(todo)

\* Graph.addEdge called by an arbitrary caller
AddEdge(a, b) ==
  /\ pc = "idle"
  /\ todo = <<>>
  /\ Len(hist) < MaxCalls
  /\ DoAddEdge(a, b)
  /\ UNCHANGED todo

\* diameter(): entry, line 102
DiameterCall ==
  /\ pc = "idle"
  /\ pc' = "range"
  /\ diameter' = 0
  /\ rangeLeft' = DOMAIN nodes
  /\ runs' = [id \in DOMAIN nodes |-> 0]
  /\ UNCHANGED << graphVars, callerVars, bfsVars, dia >>

\* `for id := range nodes` produces a key; longestShortestPath lines 122-128
RangeNext ==
  /\ pc = "range"
  /\ \E id \in rangeLeft :
       /\ rangeLeft' = rangeLeft \ {id}
       /\ runs' = [runs EXCEPT ![id] = @ + 1]
       /\ start' = id
       /\ nodes' = nodesGet(nodes, id)
       /\ n' = id
       /\ bfsData' = mapPut(EmptyMap, id, startEntry(id))
       /\ q' = <<id>>
       /\ pushCount' = [x \in DOMAIN nodes' |-> IF x = id THEN 1 ELSE 0]
       /\ adjLeft' = {}
       /\ pc' = "front"
  /\ UNCHANGED << symbolTable, callerVars, diameter, df, dia >>

\* faulty variant of Dequeue: q.Front() without q.Remove(elt)
DequeueKeepsFront ==
  /\ pc = "front"
  /\ q # <<>>
  /\ n' = Head(q)
  /\ q' = q
  /\ adjLeft' = nodes[Head(q)].adj
  /\ pc' = IF nodes[Head(q)].adj = {} THEN "front" ELSE "adj"
  /\ UNCHANGED << graphVars, callerVars, diameter, rangeLeft, start, bfsData,
                  df, dia, pushCount, runs >>

\* lines 131-135 with a non-empty queue; then `range n.adj` begins
Dequeue ==
  /\ pc = "front"
  /\ q # <<>>
  /\ n' = Head(q)
  /\ q' = Tail(q)
  /\ adjLeft' = nodes[Head(q)].adj
  /\ pc' = IF nodes[Head(q)].adj = {} THEN "front" ELSE "adj"
  /\ UNCHANGED << graphVars, callerVars, diameter, rangeLeft, start, bfsData,
                  df, dia, pushCount, runs >>

\* one iteration of `for id, m := range n.adj`, lines 137-143
Visit ==
  /\ pc = "adj"
  /\ \E id \in adjLeft :
       /\ adjLeft' = adjLeft \ {id}
       /\ pc' = IF adjLeft \ {id} = {} THEN "front" ELSE "adj"
       /\ IF undiscovered(bfsData, id)
          THEN /\ bfsData' = mapPut(bfsData, id,
                                    [parent |-> n, depth |-> childDepth(bfsData, n)])
               /\ q' = Append(q, id)
               /\ pushCount' = [pushCount EXCEPT ![id] = @ + 1]
          ELSE UNCHANGED << bfsData, q, pushCount >>
  /\ UNCHANGED << graphVars, callerVars, diameter, rangeLeft, start, n, df,
                  dia, runs >>

\* lines 132-133 and 146 with an empty queue, then lines 104-107
LspReturn ==
  /\ pc = "front"
  /\ q = <<>>
  /\ df' = bfsGet(bfsData, n).depth
  /\ diameter' = runningMax(diameter, bfsGet(bfsData, n).depth)
  /\ pc' = "range"
  /\ UNCHANGED << graphVars, callerVars, rangeLeft, start, q, bfsData, n,
                  adjLeft, dia, pushCount, runs >>

\* line 109
DiameterReturn ==
  /\ pc = "range"
  /\ rangeLeft = {}
  /\ dia' = diameter
  /\ pc' = "idle"
  /\ LocalsGone
  /\ UNCHANGED << graphVars, callerVars >>

DiameterStep == RangeNext \/ Dequeue \/ Visit \/ LspReturn \/ DiameterReturn

Next ==
  \/ Build
  \/ \E a, b \in Names : AddEdge(a, b)
  \/ DiameterCall
  \/ RangeNext
  \/ Dequeue
  \/ Visit
  \/ LspReturn
  \/ DiameterReturn

Spec == Init /\ [][Next]_vars

\* the program is single-threaded and runs a started call to its end
FairSpec == Spec /\ WF_vars(DiameterStep)

\* ------------------------------------------------- reference definitions

\* the graph the callers described, over names: one vertex per name that
\* occurs in a call, x adjacent to y when some call named the two together
namedGraph(calls) ==
  LET used == UNION {{calls[i][1], calls[i][2]} : i \in DOMAIN calls}
  IN  [x \in used |->
        [id |-> x,
         adj |-> {y \in used : \E i \in DOMAIN calls :
                     calls[i] = <<x, y>> \/ calls[i] = <<y, x>>}]]

\* the vertices within k hops of u
RECURSIVE Ball(_, _, _)
Ball(ns, u, k) ==
  IF k = 0 THEN {u}
  ELSE LET B == Ball(ns, u, k - 1)
       IN  B \cup UNION {ns[x].adj : x \in B}

Reachable(ns, u) == Ball(ns, u, Cardinality(DOMAIN ns))

\* shortest-path hop distance from u to a reachable v
Dist(ns, u, v) ==
  CHOOSE k \in 0..Cardinality(DOMAIN ns) :
    /\ v \in Ball(ns, u, k)
    /\ \A j \in 0..(k - 1) : v \notin Ball(ns, u, j)

SetMax(S) == CHOOSE x \in S : \A y \in S : y <= x

\* eccentricity of u within its component
Ecc(ns, u) == SetMax({Dist(ns, u, v) : v \in Reachable(ns, u)})

\* maximum distance over all pairs (u, v) with v reachable from u
RefDiameter(ns) == SetMax({0} \cup {Ecc(ns, u) : u \in DOMAIN ns})

Connected(ns) == \A u \in DOMAIN ns : Reachable(ns, u) = DOMAIN ns

Returned == pc = "idle" /\ dia # NoResult

\* a step that is an addEdge call, by either caller
IsAddEdge == hist' # hist
CallA == hist'[Len(hist')][1]
CallB == hist'[Len(hist')][2]

Rev(e) == <<e[2], e[1]>>

\* ------------------------------------------------------------------ C1
\* C1: whenever diameter() has returned, the value is the maximum over all
\* pairs (u, v) with v reachable from u of the hop distance from u to v in
\* the graph the addEdge calls described (0 with no nodes), and for the
\* seven rows of the test table it is the row's expDiameter.
C1_DiameterIsLongestShortestPath ==
  Returned =>
    /\ dia = RefDiameter(namedGraph(hist))
    /\ \A i \in DOMAIN tests :
         hist = tests[i].edgeList => dia = tests[i].expDiameter

C1_Witness ==
  /\ Returned
  /\ hist = tests[7].edgeList
  /\ dia = 2

\* ------------------------------------------------------------------ C2
C2_TableInv ==
  LET seen == UNION {{hist[i][1], hist[i][2]} : i \in DOMAIN hist}
  IN  /\ DOMAIN symbolTable = seen
      /\ {symbolTable[x] : x \in seen} = 0..(Cardinality(seen) - 1)
      /\ \A x, y \in seen : symbolTable[x] = symbolTable[y] => x = y
      /\ \A x \in seen \cup Names :
           LET r == getID(symbolTable, x)
           IN  IF x \in seen
               THEN r.id = symbolTable[x] /\ r.s = symbolTable
               ELSE /\ r.id = Cardinality(seen)
                    /\ DOMAIN r.s = seen \cup {x}
                    /\ r.s[x] = r.id
                    /\ \A y \in seen : r.s[y] = symbolTable[y]

C2_Step ==
  /\ \A x \in DOMAIN symbolTable :
       x \in DOMAIN symbolTable' /\ symbolTable'[x] = symbolTable[x]
  /\ IsAddEdge =>
       LET k == Cardinality(DOMAIN symbolTable)
       IN  /\ CallA \notin DOMAIN symbolTable => symbolTable'[CallA] = k
           /\ (CallB \notin DOMAIN symbolTable /\ CallB # CallA) =>
                symbolTable'[CallB] = Cardinality(DOMAIN symbolTable \cup {CallA})
           /\ DOMAIN symbolTable' = DOMAIN symbolTable \cup {CallA, CallB}
  /\ ~IsAddEdge => symbolTable' = symbolTable

\* C2: getID of a name seen before returns its id and leaves the table
\* unchanged; a new name gets the number of names in the table before the
\* call; so the table is always a one-to-one mapping from the n names seen
\* onto 0..n-1, and an id once assigned never changes.
C2_SymbolTable == [](C2_TableInv) /\ [][C2_Step]_vars

C2_Witness ==
  /\ Len(hist) = 2
  /\ hist[1] = <<"b", "a">>
  /\ hist[2] = <<"c", "b">>
  /\ symbolTable["b"] = 0 /\ symbolTable["a"] = 1 /\ symbolTable["c"] = 2

\* ------------------------------------------------------------------ C3
C3_Inv ==
  LET g == [symbolTable |-> symbolTable, nodes |-> nodes]
  IN  pc = "idle" =>
        \A a, b \in Names \cup DOMAIN symbolTable :
          LET g1 == addEdge(g, a, b)
          IN  /\ addEdge(g1, a, b) = g1
              /\ addEdge(g1, b, a) = g1

C3_Step ==
  (/\ IsAddEdge
   /\ hist # <<>>
   /\ hist'[Len(hist')] \in {hist[Len(hist)], Rev(hist[Len(hist)])})
  => /\ symbolTable' = symbolTable
     /\ nodes' = nodes
     /\ diameterResults(nodes') = diameterResults(nodes)

\* C3: in every graph state in which addEdge can be called and for all
\* names a, b, after addEdge(a, b) a further addEdge(a, b) or addEdge(b, a)
\* changes neither the symbol table nor the set of nodes nor any adjacency
\* set; and a call that repeats the previous call, in either orientation,
\* leaves the graph, and so the node count and diameter(), as they were.
C3_AddEdgeIdempotent == [](C3_Inv) /\ [][C3_Step]_vars

C3_Witness ==
  /\ Len(hist) = 2
  /\ hist[1] = <<"a", "b">>
  /\ hist[2] = <<"b", "a">>
  /\ Cardinality(DOMAIN nodes) = 2

\* ------------------------------------------------------------------ C4
\* C4: in every reachable state, for all node ids x and y, y is in the
\* adjacency set of x exactly when x is in the adjacency set of y.
C4_AdjacencySymmetric ==
  \A x \in DOMAIN nodes :
    /\ nodes[x].adj \subseteq DOMAIN nodes
    /\ \A y \in DOMAIN nodes : (y \in nodes[x].adj) <=> (x \in nodes[y].adj)

C4_Witness ==
  \E x, y \in DOMAIN nodes : x # y /\ y \in nodes[x].adj /\ x \in nodes[y].adj

\* ------------------------------------------------------------------ C5
C5_Step ==
  /\ ~IsAddEdge => (symbolTable' = symbolTable /\ nodes' = nodes)
  /\ (pc = "range" /\ pc' = "idle" /\ dia # NoResult) => dia' = dia

\* C5: no step of diameter() (any step that is not an addEdge call, from
\* any reachable state, the empty graph included) changes the symbol table,
\* the set of nodes or an adjacency set; and when diameter() returns on a
\* graph for which it has returned before, it returns the same value.
C5_DiameterSideEffectFree == [][C5_Step]_vars

C5_Witness ==
  /\ pc = "range"
  /\ rangeLeft = {}
  /\ dia # NoResult
  /\ dia = diameter
  /\ Cardinality(DOMAIN nodes) >= 3

\* ------------------------------------------------------------------ C6
\* most calls whose reorderings are compared
MaxPerm == 3

Bijections(k) ==
  {p \in [1..k -> 1..k] : \A i, j \in 1..k : p[i] = p[j] => i = j}

\* every reordering of the calls, each call in either orientation
Variants(calls) ==
  LET k == Len(calls)
  IN  {[i \in 1..k |-> IF i \in F THEN Rev(calls[p[i]]) ELSE calls[p[i]]]
       : p \in Bijections(k), F \in SUBSET (1..k)}

\* C6: whenever diameter() has returned after at most MaxPerm addEdge
\* calls, building a new graph from any permutation of those calls, each
\* with its two names in either order, makes diameter() return that value.
C6_OrderIndependent ==
  (Returned /\ Len(hist) <= MaxPerm) =>
    \A e \in Variants(hist) : diameterResults(build(New, e).nodes) = {dia}

C6_Witness ==
  /\ Returned
  /\ hist = tests[4].edgeList
  /\ dia = 3

\* ------------------------------------------------------------------ C7
C7_Inv ==
  LET g == [symbolTable |-> symbolTable, nodes |-> nodes]
  IN  (pc = "idle" /\ nodes # EmptyMap /\ Connected(nodes)) =>
        LET before == diameterResults(nodes)
        IN  \A a, b \in {x \in DOMAIN symbolTable : symbolTable[x] \in DOMAIN nodes} :
              \A d2 \in diameterResults(addEdge(g, a, b).nodes) :
                \A d1 \in before : d2 <= d1

C7_Step ==
  (/\ IsAddEdge
   /\ nodes # EmptyMap
   /\ Connected(nodes)
   /\ {CallA, CallB} \subseteq DOMAIN symbolTable
   /\ {symbolTable[CallA], symbolTable[CallB]} \subseteq DOMAIN nodes)
  => LET before == diameterResults(nodes)
     IN  \A d2 \in diameterResults(nodes') : \A d1 \in before : d2 <= d1

\* C7: when all nodes form one connected component and addEdge names two
\* names whose nodes are in it, every value diameter() can return after the
\* call is at most every value it can return before it.
C7_EdgeNeverIncreasesDiameter == [](C7_Inv) /\ [][C7_Step]_vars

C7_Witness ==
  /\ hist = tests[6].edgeList
  /\ diameterResults(nodes) = {2}
  /\ diameterResults(build(New, SubSeq(hist, 1, 3)).nodes) = {3}

\* ------------------------------------------------------------------ C8
C8_Step ==
  (IsAddEdge /\ CallA = CallB) =>
    LET id == symbolTable'[CallA]
    IN  /\ id \in DOMAIN nodes'
        /\ id \in nodes'[id].adj
        /\ DOMAIN nodes' = DOMAIN nodes \cup {id}
        /\ CallA \in DOMAIN symbolTable =>
             /\ id = symbolTable[CallA]
             /\ diameterResults(nodes') = diameterResults(nodes)

C8_Inv ==
  LET g == [symbolTable |-> symbolTable, nodes |-> nodes]
  IN  /\ pc = "idle" =>
           LET before == diameterResults(nodes)
           IN  \A a \in DOMAIN symbolTable :
                 diameterResults(addEdge(g, a, a).nodes) = before
      /\ (hist # <<>> /\ \A i \in DOMAIN hist : hist[i] = <<hist[1][1], hist[1][1]>>)
         => /\ Cardinality(DOMAIN nodes) = 1
            /\ diameterResults(nodes) = {0}
            /\ Returned => dia = 0

\* C8: addEdge(a, a) leaves a single node for a whose adjacency set holds
\* its own id and creates no other node; on a name already present, in any
\* graph state, it does not change what diameter() returns; and a graph
\* built only from addEdge(a, a) calls on one name has one node and
\* diameter 0.
C8_SelfLoop == [](C8_Inv) /\ [][C8_Step]_vars

C8_Witness ==
  /\ Returned
  /\ hist = << <<"a", "b">>, <<"b", "b">> >>
  /\ 1 \in nodes[1].adj
  /\ dia = 1

\* ------------------------------------------------------------------ C9
C9_Inv ==
  /\ \A id \in DOMAIN pushCount : pushCount[id] <= 1
  /\ pc \in {"front", "adj"} =>
       \A id \in DOMAIN pushCount : (pushCount[id] = 1) <=> (id \in DOMAIN bfsData)
  /\ pc # "idle" =>
       \A id \in DOMAIN nodes :
         runs[id] = IF id \in rangeLeft \/ id \notin DOMAIN runs THEN 0 ELSE 1
  /\ (pc = "range" /\ rangeLeft = {}) =>
       (DOMAIN runs = DOMAIN nodes /\ \A id \in DOMAIN nodes : runs[id] = 1)

\* C9: a started diameter() call always returns; in each pass every node
\* is pushed on the queue at most once (the start node and self-adjacent
\* nodes included), and the call runs exactly one pass per node.
C9_Terminates == [](C9_Inv) /\ ((pc # "idle") ~> (pc = "idle"))

C9_Witness ==
  /\ pc = "range"
  /\ rangeLeft = {}
  /\ Cardinality(DOMAIN nodes) = 2
  /\ \E id \in DOMAIN nodes : id \in nodes[id].adj
  /\ \A id \in DOMAIN nodes : pushCount[id] = 1 /\ runs[id] = 1

\* ------------------------------------------------------------------ C10
MaxDepth(data) == SetMax({data[id].depth : id \in DOMAIN data})

C10_Inv ==
  pc # "idle" =>
    \A id \in DOMAIN bfsData : bfsData[id].depth = Dist(nodes, start, id)

C10_Step ==
  /\ (pc = "front" /\ q # <<>>) =>
       bfsData'[n'].depth >= bfsData[n].depth
  /\ (pc = "front" /\ pc' = "range") =>
       /\ df' = bfsData[n].depth
       /\ df' = MaxDepth(bfsData)
       /\ df' = Ecc(nodes, start)
       /\ DOMAIN bfsData = Reachable(nodes, start)

\* C10: within one pass from start node v, nodes are dequeued in
\* non-decreasing order of recorded depth, every recorded depth is the
\* hop distance from v, and the value returned (the depth of the last
\* node dequeued) is the maximum depth recorded in the pass, whatever
\* order the adjacency maps are iterated in.
C10_BfsLayering == [](C10_Inv) /\ [][C10_Step]_vars

C10_Witness ==
  /\ pc = "front"
  /\ q = <<>>
  /\ Cardinality(DOMAIN bfsData) = 4
  /\ bfsData[n].depth = 3
====
